---- MODULE Spec2Model ----
(***************************************************************************)
(* Model of django_audit_logger: the request-logging middleware            *)
(* (middleware.py, RequestLogMiddleware) and the asynchronous worker task  *)
(* (tasks.py, create_request_log_entry) that persists the audit record.    *)
(*                                                                         *)
(* One behaviour follows one request through                               *)
(* RequestLogMiddleware.__call__, statement by statement, and the record   *)
(* it queues through the attempts of the Celery worker, which run          *)
(* concurrently with the rest of the request.                              *)
(* (specification Spec).  The two capture steps, with the texts they mask  *)
(* and truncate, are followed on one message at a time (specification      *)
(* CaptureSpec); the arguments _create_log_entry hands to the queue or to  *)
(* RequestLog.objects.create are followed on their own (specification      *)
(* WireSpec); the management command cleanup_audit_logs is followed on one *)
(* run over one table (specification CleanupSpec).                         *)
(***************************************************************************)
EXTENDS Integers, Sequences, FiniteSets, TLC

(***************************************************************************)
(* Bounds of the model.                                                    *)
(***************************************************************************)
MaxPathLen == 2
\* cap on the number of worker attempts explored for one task (guard only)
MaxAttempts == 5

(***************************************************************************)
(* Values handed between the steps.  All are records of one shape.         *)
(***************************************************************************)
Unset == [kind |-> "unset", type |-> "-", origin |-> "-", status |-> 0]
\* Python's None
NoneValue == [kind |-> "none", type |-> "-", origin |-> "-", status |-> 0]
Response(s) == [kind |-> "response", type |-> "-", origin |-> "-", status |-> s]
Fault(t, o) == [kind |-> "fault", type |-> t, origin |-> o, status |-> 0]
\* a snapshot dict built by a capture step; status is the captured status code
Snapshot(s) == [kind |-> "data", type |-> "-", origin |-> "-", status |-> s]

(***************************************************************************)
(* Configuration.                                                          *)
(***************************************************************************)
\* middleware.py:35-38 (default exclude_paths), as token sequences
exclude_paths == {<<"/admin/jsi18n/">>, <<"/static/">>, <<"/media/">>}
\* middleware.py:39-42 (default exclude_extensions)
exclude_extensions ==
    {<<".css">>, <<".js">>, <<".ico">>, <<".jpg">>, <<".png">>, <<".gif">>, <<".svg">>}
\* tasks.py:24  @shared_task(bind=True, max_retries=3, ...)
max_retries == 3

\* A path is a sequence of atomic pieces of text; its string is their
\* concatenation.
PathTokens == {"/static/", "/api/", ".js"}
Paths == UNION {[1..n -> PathTokens] : n \in 1..MaxPathLen}

\* what the downstream handler (get_response) can do
StatusCodes == {200, 404}
DownstreamOutcomes ==
    {Response(s) : s \in StatusCodes} \cup {Fault("RuntimeError", "downstream")}

\* exception types that code called by a capture step can raise
CaptureFaultTypes == {"KeyError", "OperationalError"}
\* exception types .delay() can raise: no Celery (the dummy shared_task leaves
\* a plain function without .delay), or the broker is unreachable
DelayFaultTypes == {"AttributeError", "OperationalError"}

(***************************************************************************)
(* str.startswith / str.endswith on token sequences.                       *)
(***************************************************************************)
startswith(s, prefix) ==
    /\ Len(prefix) <= Len(s)
    /\ SubSeq(s, 1, Len(prefix)) = prefix

endswith(s, suffix) ==
    /\ Len(suffix) <= Len(s)
    /\ SubSeq(s, Len(s) - Len(suffix) + 1, Len(s)) = suffix

\* is_excluded without the extension test of middleware.py:69-70
is_excluded_prefix_only(p) ==
    \E prefix \in exclude_paths : startswith(p, prefix)

\* middleware.py:66-70, the two skip tests of __call__
is_excluded(p) ==
    \/ \E prefix \in exclude_paths : startswith(p, prefix)
    \/ \E ext \in exclude_extensions : endswith(p, ext)

(***************************************************************************)
(* capture_exception_and_notify (email_utils.py): the wrapper catches any  *)
(* exception of the wrapped call, logs and notifies, and re-raises it only *)
(* when AUDIT_LOGGER_RAISE_EXCEPTIONS is set; otherwise the call returns   *)
(* None.                                                                   *)
(***************************************************************************)
capture_exception_and_notify(outcome, raise_exceptions) ==
    IF outcome.kind = "fault" /\ ~raise_exceptions THEN NoneValue ELSE outcome

(***************************************************************************)
(* The store: RequestLog and RequestLog.objects.create.                    *)
(***************************************************************************)
\* models.py:15-36, the fields RequestLog declares (and its primary key)
RequestLogFields ==
    {"id", "timestamp", "method", "path", "query_params", "headers", "body",
     "content_type", "status_code", "response_headers", "response_body",
     "response_time_ms", "ip_address", "user_id", "user_agent", "session_id",
     "extra_data"}

\* middleware.py:245-257, the keyword arguments of the synchronous create
SyncCreateKwargs ==
    {"method", "path", "query_params", "request_headers", "request_body",
     "client_ip", "user_id", "status_code", "response_headers",
     "response_body", "execution_time"}

\* tasks.py:71-83, the keys of log_data, passed as **log_data to both stores
LogDataKeys ==
    {"method", "path", "query_params", "request_headers", "request_body",
     "client_ip", "user_id", "status_code", "response_headers",
     "response_body", "execution_time"}

\* RequestLog.objects.create(**kwargs): the model instance is built first and
\* a keyword that is no field of the model raises TypeError before the
\* database is touched; then the INSERT needs the database.  The result is
\* the type of the exception raised, "none" when the row is written.
objects_create(kwargs, pg_reachable) ==
    IF ~(kwargs \subseteq RequestLogFields) THEN "TypeError"
    ELSE IF ~pg_reachable THEN "OperationalError"
    ELSE "none"

(***************************************************************************)
(* The capture steps.  A capture fault is an exception raised by code the  *)
(* step calls: in_try says whether it is raised inside the step's          *)
(* try block around the body (middleware.py:119-148, 181-199).             *)
(***************************************************************************)
NoCaptureFault == [type |-> "none", in_try |-> FALSE]
CaptureFaults ==
    {NoCaptureFault} \cup
    {[type |-> t, in_try |-> b] : t \in CaptureFaultTypes, b \in BOOLEAN}

\* middleware.py:147 and :198, the except clauses of the two body captures
capture_caught == {"ValueError", "TypeError", "AttributeError", "KeyError"}

\* the body of _capture_request_data, middleware.py:103-155
capture_request_body(f) ==
    IF f.type = "none" \/ (f.in_try /\ f.type \in capture_caught)
    THEN Snapshot(0)
    ELSE Fault(f.type, "capture_request")

\* _capture_request_data as decorated, middleware.py:92-93
capture_request_data(f, raise_exceptions) ==
    capture_exception_and_notify(capture_request_body(f), raise_exceptions)

\* the body of _capture_response_data, middleware.py:168-201
capture_response_body(response, f) ==
    IF f.type = "none" \/ (f.in_try /\ f.type \in capture_caught)
    THEN Snapshot(response.status)
    ELSE Fault(f.type, "capture_response")

\* _capture_response_data as decorated, middleware.py:157-158
capture_response_data(response, f, raise_exceptions) ==
    capture_exception_and_notify(capture_response_body(response, f), raise_exceptions)

(***************************************************************************)
(* The dispatch step, _create_log_entry.                                   *)
(***************************************************************************)
\* the except clause of _create_log_entry without TypeError
create_log_entry_caught_no_typeerror == {"ValueError", "AttributeError", "KeyError"}

\* middleware.py:259, the except clause of _create_log_entry
create_log_entry_caught == {"ValueError", "TypeError", "AttributeError", "KeyError"}

\* the body of _create_log_entry, middleware.py:217-260.  delay_fault is the
\* type of the exception .delay() raises ("none": the task is queued).
create_log_entry_body(req_data, resp_data, use_async_logging, delay_fault, pg_reachable) ==
    LET \* request_data['method'] / response_data['status_code'] on None
        no_data == req_data.kind # "data" \/ resp_data.kind # "data"
        raised == IF no_data THEN "TypeError"
                  ELSE IF use_async_logging THEN delay_fault
                  ELSE objects_create(SyncCreateKwargs, pg_reachable)
        caught == raised \in create_log_entry_caught
    IN  [dispatched   |-> ~no_data,
         status       |-> IF no_data THEN 0 ELSE resp_data.status,
         enqueued     |-> ~no_data /\ use_async_logging /\ raised = "none",
         create_call  |-> ~no_data /\ ~use_async_logging,
         created      |-> ~no_data /\ ~use_async_logging /\ raised = "none",
         raised       |-> raised,
         error_logged |-> raised # "none" /\ caught,
         outcome      |-> IF raised # "none" /\ ~caught
                          THEN Fault(raised, "create_log_entry")
                          ELSE NoneValue]

\* _create_log_entry as decorated, middleware.py:203-206: what the call in
\* __call__ sees (None, or the exception the decorator lets through)
create_log_entry(body, raise_exceptions) ==
    capture_exception_and_notify(body.outcome, raise_exceptions)

(***************************************************************************)
(* Control flow of __call__ after the skip tests, middleware.py:72-90.     *)
(***************************************************************************)
\* the control flow with the response captured before the downstream call
NextPc_capture_first(p) ==
    CASE p = "capture_request"  -> "capture_response"
      [] p = "capture_response" -> "downstream"
      [] p = "downstream"       -> "dispatch"
      [] p = "dispatch"         -> "return"
      [] OTHER                  -> "returned"

NextPc(p) ==
    CASE p = "capture_request"  -> "downstream"
      [] p = "downstream"       -> "capture_response"
      [] p = "capture_response" -> "dispatch"
      [] p = "dispatch"         -> "return"
      [] OTHER                  -> "returned"

\* __call__ as decorated, middleware.py:52-53: what the caller gets when the
\* body of __call__ ends with `outcome` (a returned value or a raised fault)
call_outcome(outcome, raise_exceptions) ==
    capture_exception_and_notify(outcome, raise_exceptions)

(***************************************************************************)
(* The worker task create_request_log_entry.                               *)
(***************************************************************************)
\* the except clause of the task without TypeError
worker_caught_no_typeerror ==
    {"DoesNotExist", "MultipleObjectsReturned", "ValueError", "JSONDecodeError"}

\* tasks.py:99-100, the except clause of the task
worker_caught ==
    {"DoesNotExist", "MultipleObjectsReturned", "ValueError", "TypeError",
     "JSONDecodeError"}

\* the task body with PostgreSQL written only as a fallback of MongoDB
task_body_fallback_only(use_mongo, write_to_both, mongo_available, mongo_write_ok, pg_reachable) ==
    LET mongo_tried == (use_mongo \/ write_to_both) /\ mongo_available
        mongo_success == mongo_tried /\ mongo_write_ok
        pg_tried == ~use_mongo \/ (use_mongo /\ ~mongo_success)
        raised == IF pg_tried THEN objects_create(LogDataKeys, pg_reachable)
                  ELSE "none"
    IN  [mongo_tried   |-> mongo_tried,
         mongo_success |-> mongo_success,
         pg_tried      |-> pg_tried,
         pg_created    |-> pg_tried /\ raised = "none",
         raised        |-> raised]

\* tasks.py:55-97, one run of the task body: which stores are written and
\* which exception (if any) ends the try block.  mongo_available is
\* mongo_storage.is_available(), mongo_write_ok the value returned by
\* mongo_storage.create_request_log.
task_body(use_mongo, write_to_both, mongo_available, mongo_write_ok, pg_reachable) ==
    LET mongo_tried == (use_mongo \/ write_to_both) /\ mongo_available
        mongo_success == mongo_tried /\ mongo_write_ok
        pg_tried == ~use_mongo \/ write_to_both \/ (use_mongo /\ ~mongo_success)
        raised == IF pg_tried THEN objects_create(LogDataKeys, pg_reachable)
                  ELSE "none"
    IN  [mongo_tried   |-> mongo_tried,
         mongo_success |-> mongo_success,
         pg_tried      |-> pg_tried,
         pg_created    |-> pg_tried /\ raised = "none",
         raised        |-> raised]

\* a retry test that is off by one
retry_requeues_off_by_one(retries) == retries <= max_retries

\* tasks.py:24 and :103, self.retry(exc=exc) of a task bound with
\* max_retries: the task is queued again while its retry count is below
\* max_retries, otherwise exc is raised and the task ends as failed
retry_requeues(retries) == retries < max_retries

\* tasks.py:59-103, the task record after one attempt with body result a;
\* mongo_tried and pg_tried say which stores that attempt called
task_after(t, a) ==
    LET t1 == [t EXCEPT !.attempts = @ + 1,
                        !.store_errors = @ + (IF a.raised # "none" THEN 1 ELSE 0),
                        !.mongo_tried = a.mongo_tried,
                        !.pg_tried = a.pg_tried]
    IN  IF a.raised = "none"
        THEN [t1 EXCEPT !.state = "succeeded"]
        ELSE IF a.raised \in worker_caught
        THEN IF retry_requeues(t.retries)
             THEN [t1 EXCEPT !.error_logs = @ + 1, !.retries = @ + 1]
             ELSE [t1 EXCEPT !.error_logs = @ + 1, !.state = "failed"]
        ELSE [t1 EXCEPT !.state = "failed", !.escaped = TRUE]

NoTask ==
    [state |-> "none", retries |-> 0, attempts |-> 0, error_logs |-> 0,
     store_errors |-> 0, escaped |-> FALSE,
     mongo_tried |-> FALSE, pg_tried |-> FALSE]

(***************************************************************************)
(* Text.  A string is a sequence of characters.  A field name or header    *)
(* name is one character of the alphabet, a value is a run of value        *)
(* characters: "s" is a character of a secret value, "x" of any other      *)
(* value, "*" of the mask.                                                 *)
(***************************************************************************)
\* longest value of a field
MaxValueLen == 2
\* largest of the small values of max_body_length
MaxBodyLength == 3

\* middleware.py:115, :140, :177, the literal '********'
MaskToken == <<"*", "*", "*", "*", "*", "*", "*", "*">>

\* middleware.py:153 and :197, the literal '... [truncated]'
truncation_marker ==
    <<".", ".", ".", " ", "[", "t", "r", "u", "n", "c", "a", "t", "e", "d", "]">>

\* middleware.py:31-34, sensitive_fields (three of the default names)
sensitive_fields == {"password", "token", "authorization"}

\* the body captured for DELETE as well
body_methods_with_delete == {"POST", "PUT", "PATCH", "DELETE"}

\* middleware.py:118, the methods whose body is captured
body_methods == {"POST", "PUT", "PATCH"}

\* middleware.py:43-46, the default of max_body_length
default_max_body_length == 8192

Methods == {"GET", "POST", "PUT", "PATCH", "DELETE", "OPTIONS", "HEAD"}
ContentTypes == {"application/json", "application/x-www-form-urlencoded"}

\* str.lower() on the names of the alphabet
lower(n) ==
    CASE n = "Authorization" -> "authorization"
      [] n = "Content-Type"  -> "content-type"
      [] n = "Accept"        -> "accept"
      [] n = "Token"         -> "token"
      [] OTHER               -> n

ValueChars == {"s", "x", "*"}

\* request.headers names a header the way Django builds it from META
\* (title case); a response carries the names the view has set
RequestHeaderNames == {"Authorization", "Accept"}
ResponseHeaderNames == {"Authorization", "authorization", "Content-Type"}

\* the name of a field or header is sensitive, whatever its case
IsSensitiveName(n) == \E f \in sensitive_fields : lower(f) = lower(n)

\* dict(request.headers.items()) / dict(response.items()): name -> value
HeaderDicts(names) ==
    {[n \in N |-> IF IsSensitiveName(n) THEN <<"s">> ELSE <<"x">>] :
        N \in {M \in SUBSET names : \A a, b \in M : lower(a) = lower(b) => a = b}}

\* the keys of a body, in the order they are written
BodyKeys == {"amount", "token", "Token"}
KeyOrder == <<"amount", "token", "Token">>

\* a flat mapping key -> value, as json.loads or request.POST.dict() gives
Docs ==
    UNION {{[k \in K |-> [i \in 1..len[k] |-> IF IsSensitiveName(k) THEN "s" ELSE "x"]] :
                len \in [K -> 1..MaxValueLen]} : K \in SUBSET BodyKeys}

\* a JSON value: the mapping itself, or the mapping one level down
JsonValues == [doc : Docs, nested : BOOLEAN]

RECURSIVE Entries(_, _)
Entries(d, i) ==
    IF i > Len(KeyOrder) THEN <<>>
    ELSE (IF KeyOrder[i] \in DOMAIN d THEN <<KeyOrder[i]>> \o d[KeyOrder[i]] ELSE <<>>)
         \o Entries(d, i + 1)

\* the body of a form request that carries the fields of d
urlencode(d) == Entries(d, 1)

\* json.dumps
json_dumps(v) ==
    IF v.nested
    THEN <<"{", "data", "{">> \o Entries(v.doc, 1) \o <<"}", "}">>
    ELSE <<"{">> \o Entries(v.doc, 1) \o <<"}">>

\* json.loads: the value whose text this is; ok is FALSE where it raises
json_loads(text) ==
    IF \E v \in JsonValues : json_dumps(v) = text
    THEN [ok |-> TRUE, value |-> CHOOSE v \in JsonValues : json_dumps(v) = text]
    ELSE [ok |-> FALSE, value |-> [doc |-> <<>>, nested |-> FALSE]]

\* request.POST.dict() of a form body
POST_dict(text) == CHOOSE d \in Docs : urlencode(d) = text

(***************************************************************************)
(* mask_sensitive_data (utils.py) on text: where a name that matches a     *)
(* sensitive field, case-insensitively, is followed by a value, the value  *)
(* is replaced by the mask; everything else passes through unchanged.      *)
(***************************************************************************)
RECURSIVE skip_value(_)
skip_value(t) ==
    IF t # <<>> /\ Head(t) \in ValueChars THEN skip_value(Tail(t)) ELSE t

RECURSIVE mask_sensitive_data(_, _)
mask_sensitive_data(t, fields) ==
    IF t = <<>> THEN <<>>
    ELSE IF /\ \E f \in fields : lower(f) = lower(Head(t))
            /\ Tail(t) # <<>>
            /\ Head(Tail(t)) \in ValueChars
         THEN <<Head(t)>> \o MaskToken \o mask_sensitive_data(skip_value(Tail(t)), fields)
         ELSE <<Head(t)>> \o mask_sensitive_data(Tail(t), fields)

(***************************************************************************)
(* The pieces of the two capture steps.                                    *)
(***************************************************************************)
\* header masking that writes a mask one character longer than the value
mask_headers_grow(h, fields) ==
    [n \in DOMAIN h |-> IF \E f \in fields : lower(f) = n
                        THEN h[n] \o <<"*">> ELSE h[n]]

\* middleware.py:111-115 and :173-177, the loop that masks the headers
mask_headers(h, fields) ==
    [n \in DOMAIN h |-> IF \E f \in fields : lower(f) = n THEN MaskToken ELSE h[n]]

\* middleware.py:137-140, the loop that masks the fields of a form
mask_form(d, fields) ==
    [k \in DOMAIN d |-> IF k \in fields THEN MaskToken ELSE d[k]]

\* truncation that keeps one character too many
truncate_off_by_one(text, max) ==
    IF Len(text) > max THEN SubSeq(text, 1, max + 1) \o truncation_marker ELSE text

\* middleware.py:150-153 and :195-197
truncate(text, max) ==
    IF Len(text) > max THEN SubSeq(text, 1, max) \o truncation_marker ELSE text

\* the text cut first and masked afterwards
finish_body_truncate_first(raw, fields, max) ==
    [masked |-> mask_sensitive_data(raw, fields),
     body   |-> mask_sensitive_data(truncate(raw, max), fields)]

\* the text stored as it came
finish_body_unmasked(raw, fields, max) ==
    [masked |-> raw, body |-> truncate(raw, max)]

\* middleware.py:124-127, :129-132, :143-146 with :150-153, and :185-197:
\* the text is masked, stored, and the stored text truncated
finish_body(raw, fields, max) ==
    [masked |-> mask_sensitive_data(raw, fields),
     body   |-> truncate(mask_sensitive_data(raw, fields), max)]

(***************************************************************************)
(* The two capture steps in full: what they build from a request and from  *)
(* a response.  A snapshot keeps, next to the dict the step returns        *)
(* (headers, body), the locals of the step: the masked text before         *)
(* truncation, the masked form, the branch taken, whether the body of the  *)
(* message was read.                                                       *)
(***************************************************************************)
NoSnapshot ==
    [kind |-> "none", headers |-> <<>>, has_body |-> FALSE, body_read |-> FALSE,
     branch |-> "none", masked |-> <<>>, body |-> <<>>, form |-> <<>>]

\* _capture_request_data, middleware.py:103-155
request_snapshot(request, max) ==
    LET loaded == json_loads(request.body)
        form == mask_form(POST_dict(request.body), sensitive_fields)
        form_text == json_dumps([doc |-> form, nested |-> FALSE])
        text(branch, raw) ==
            LET r == finish_body(raw, sensitive_fields, max)
            IN  [NoSnapshot EXCEPT !.has_body = TRUE, !.body_read = TRUE,
                                   !.branch = branch, !.masked = r.masked,
                                   !.body = r.body]
        b == IF request.method \notin body_methods THEN NoSnapshot
             ELSE IF request.content_type = "application/json"
             THEN IF loaded.ok
                  THEN text("json", json_dumps(loaded.value))
                  ELSE text("json_fallback", request.body)
             ELSE IF ~request.post_fault
             THEN [NoSnapshot EXCEPT !.has_body = TRUE, !.body_read = TRUE,
                                     !.branch = "form", !.masked = form_text,
                                     !.body = truncate(form_text, max),
                                     !.form = form]
             ELSE text("form_fallback", request.body)
    IN  [b EXCEPT !.kind = "request",
                  !.headers = mask_headers(request.headers, sensitive_fields)]

\* _capture_response_data, middleware.py:168-201
response_snapshot(response, max) ==
    LET loaded == json_loads(response.body)
        text(branch, raw) ==
            LET r == finish_body(raw, sensitive_fields, max)
            IN  [NoSnapshot EXCEPT !.has_body = TRUE, !.body_read = TRUE,
                                   !.branch = branch, !.masked = r.masked,
                                   !.body = r.body]
        b == IF ~response.has_content THEN NoSnapshot
             ELSE IF loaded.ok
             THEN text("json", json_dumps(loaded.value))
             ELSE text("json_fallback", response.body)
    IN  [b EXCEPT !.kind = "response",
                  !.headers = mask_headers(response.headers, sensitive_fields)]

\* middleware.py:232-233 and :237-238 (:248-249 and :253-254), the headers
\* and the body _create_log_entry passes on:
\* request_data.get('headers', {}), request_data.get('body', ''),
\* response_data.get('headers', {}), response_data.get('content', '')
NoHanded == [kind |-> "none", headers |-> <<>>, body |-> <<>>]
dispatch_args(snap) ==
    [kind |-> snap.kind, headers |-> snap.headers,
     body |-> IF snap.has_body THEN snap.body ELSE <<>>]

\* the configured values of max_body_length: the small ones, which cut
\* the bodies of the model, and the default, which cuts none of them
BodyLengths == (0..MaxBodyLength) \cup {default_max_body_length}

\* the messages
JsonTexts ==
    {json_dumps(v) : v \in JsonValues}
        \cup {SubSeq(json_dumps(v), 1, Len(json_dumps(v)) - 1) : v \in JsonValues}
FormTexts == {urlencode(d) : d \in Docs}

NoMessage ==
    [kind |-> "none", method |-> "-", content_type |-> "-", headers |-> <<>>,
     body |-> <<>>, post_fault |-> FALSE, has_content |-> FALSE]

Requests ==
    {[kind |-> "request", method |-> m, content_type |-> "application/json",
      headers |-> h, body |-> b, post_fault |-> FALSE, has_content |-> TRUE] :
        m \in Methods, h \in HeaderDicts(RequestHeaderNames), b \in JsonTexts}
    \cup
    {[kind |-> "request", method |-> m,
      content_type |-> "application/x-www-form-urlencoded",
      headers |-> h, body |-> b, post_fault |-> pf, has_content |-> TRUE] :
        m \in Methods, h \in HeaderDicts(RequestHeaderNames), b \in FormTexts,
        pf \in BOOLEAN}

Responses ==
    {[kind |-> "response", method |-> "-", content_type |-> "-",
      headers |-> h, body |-> b, post_fault |-> FALSE, has_content |-> TRUE] :
        h \in HeaderDicts(ResponseHeaderNames), b \in JsonTexts}
    \cup
    {[kind |-> "response", method |-> "-", content_type |-> "-",
      headers |-> h, body |-> <<>>, post_fault |-> FALSE, has_content |-> FALSE] :
        h \in HeaderDicts(ResponseHeaderNames)}

(***************************************************************************)
(* The arguments _create_log_entry builds and the conversion of the        *)
(* worker.  An argument is a dict, a string or a scalar.                   *)
(***************************************************************************)
DictValue(d) == [type |-> "dict", dict |-> d, text |-> <<>>]
StrValue(t) == [type |-> "str", dict |-> <<>>, text |-> t]
ScalarValue(x) == [type |-> "scalar", dict |-> <<>>, text |-> <<x>>]

\* the names of headers and query parameters, in the order they are written
NameOrder ==
    <<"Accept", "Authorization", "authorization", "Content-Type", "page", "q">>

RECURSIVE DictEntries(_, _)
DictEntries(d, i) ==
    IF i > Len(NameOrder) THEN <<>>
    ELSE (IF NameOrder[i] \in DOMAIN d THEN <<NameOrder[i]>> \o d[NameOrder[i]] ELSE <<>>)
         \o DictEntries(d, i + 1)

\* json.dumps of a dict of headers or of query parameters
json_dumps_dict(d) == <<"{">> \o DictEntries(d, 1) \o <<"}">>

\* middleware.py:229-241, the keyword arguments of create_request_log_entry.delay
delay_kwargs(rd, resp, user_id, execution_time) ==
    [method           |-> rd.method,
     path             |-> rd.path,
     query_params     |-> DictValue(rd.query_params),
     request_headers  |-> DictValue(rd.headers),
     request_body     |-> StrValue(rd.body),
     client_ip        |-> rd.client_ip,
     user_id          |-> user_id,
     status_code      |-> resp.status_code,
     response_headers |-> DictValue(resp.headers),
     response_body    |-> StrValue(resp.content),
     execution_time   |-> execution_time]

\* middleware.py:245-257, the keyword arguments of the synchronous create
sync_create_kwargs(rd, resp, user_id, execution_time) ==
    [method           |-> rd.method,
     path             |-> rd.path,
     query_params     |-> StrValue(json_dumps_dict(rd.query_params)),
     request_headers  |-> StrValue(json_dumps_dict(rd.headers)),
     request_body     |-> StrValue(rd.body),
     client_ip        |-> rd.client_ip,
     user_id          |-> user_id,
     status_code      |-> resp.status_code,
     response_headers |-> StrValue(json_dumps_dict(resp.headers)),
     response_body    |-> StrValue(resp.content),
     execution_time   |-> execution_time]

\* tasks.py:61-68, if isinstance(x, dict): x = json.dumps(x)
dict_to_json(x) == IF x.type = "dict" THEN StrValue(json_dumps_dict(x.dict)) ELSE x

\* the conversion of the worker with response_headers left as it came
worker_log_data_two_fields(kwargs) ==
    [kwargs EXCEPT !.query_params = dict_to_json(@),
                   !.request_headers = dict_to_json(@)]

\* tasks.py:61-83, log_data as the worker builds it from its arguments
worker_log_data(kwargs) ==
    [kwargs EXCEPT !.query_params = dict_to_json(@),
                   !.request_headers = dict_to_json(@),
                   !.response_headers = dict_to_json(@)]

\* the snapshots _create_log_entry is given
QueryDicts == {[n \in N |-> <<"x">>] : N \in SUBSET {"page", "q"}}
Bodies == {<<>>, <<"{", "}">>}

RequestData ==
    {[method |-> ScalarValue("POST"), path |-> ScalarValue("/api/"),
      query_params |-> q, headers |-> mask_headers(h, sensitive_fields),
      body |-> b, client_ip |-> ScalarValue("10.0.0.1")] :
        q \in QueryDicts, h \in HeaderDicts(RequestHeaderNames), b \in Bodies}

ResponseData ==
    {[status_code |-> ScalarValue("200"),
      headers |-> mask_headers(h, sensitive_fields), content |-> b] :
        h \in HeaderDicts(ResponseHeaderNames), b \in Bodies}

\* who calls the task: the middleware, or a caller that passes the
\* structured fields as JSON strings
Callers == {"middleware", "serialized"}

NoWire ==
    [stage |-> "none", caller |-> "-", request_data |-> <<>>,
     response_data |-> <<>>, args |-> <<>>, created_with |-> <<>>]

(***************************************************************************)
(* The management command cleanup_audit_logs.  A timestamp is a number of  *)
(* days; the table of RequestLog is a function from ids to timestamps.     *)
(***************************************************************************)
MaxLogs == 3
MaxTime == 2
MaxDays == 2
MaxBatch == 2

\* cleanup_audit_logs.py:42, audit_logger_settings.get('RETENTION_DAYS', 90)
default_retention_days == 90

\* cleanup_audit_logs.py:33, default=1000
default_batch_size == 1000

\* cleanup_audit_logs.py:48, timezone.now()
Now == MaxTime

LogIds == 1..MaxLogs
Timestamps == 0..MaxTime
Tables == UNION {[I -> Timestamps] : I \in SUBSET LogIds}

\* cleanup_audit_logs.py:18-35, --days (an int, or not given), --dry-run,
\* --batch-size (an int)
Options ==
    {o \in [has_days : BOOLEAN, days : -1..MaxDays, dry_run : BOOLEAN,
            batch_size : (-1..MaxBatch) \cup {default_batch_size}] :
        ~o.has_days => o.days = 0}

NoOptions == [has_days |-> FALSE, days |-> 0, dry_run |-> FALSE, batch_size |-> 0]

\* cleanup_audit_logs.py:39-42
retention_days(opts) == IF opts.has_days THEN opts.days ELSE default_retention_days

\* a test that lets a retention period of 0 days through
valid_days_with_zero(days) == days >= 0

\* cleanup_audit_logs.py:44, if days <= 0: raise CommandError
valid_days(days) == ~(days <= 0)

\* cleanup_audit_logs.py:48, cutoff_date = timezone.now() - timedelta(days=days)
cutoff(opts) == Now - retention_days(opts)

\* a filter that also takes the logs made at the cutoff
older_or_at(table, cutoff_date) == {i \in DOMAIN table : table[i] <= cutoff_date}

\* RequestLog.objects.filter(timestamp__lt=cutoff_date)
older_than(table, cutoff_date) == {i \in DOMAIN table : table[i] < cutoff_date}

\* cleanup_audit_logs.py:81-84, the lists of ids [:n] can give: the first n
\* of the filtered logs in the order of Meta.ordering, '-timestamp'
\* (models.py:41); the database orders equal timestamps as it likes
first_ids(table, cutoff_date, n) ==
    LET old == older_than(table, cutoff_date)
        k == IF n < Cardinality(old) THEN n ELSE Cardinality(old)
    IN  {B \in SUBSET old :
            /\ Cardinality(B) = k
            /\ \A i \in B, j \in old \ B : table[i] >= table[j]}

\* RequestLog.objects.filter(id__in=ids).delete()
delete_ids(table, B) == [i \in DOMAIN table \ B |-> table[i]]

(***************************************************************************)
(* State.                                                                  *)
(***************************************************************************)
VARIABLES
    settings,       \* AUDIT_LOGS_ASYNC_LOGGING, AUDIT_LOGGER_RAISE_EXCEPTIONS,
                    \* AUDIT_LOGS_USE_MONGO, AUDIT_LOGS_WRITE_TO_BOTH
    env,            \* the backends: Mongo available / accepts writes, PostgreSQL reachable
    pc,             \* position of the current request in __call__
    path,           \* request.path
    trace,          \* steps of __call__ taken for the current request, in order
    request_data,   \* local of __call__
    downstream,     \* what get_response(request) did (Unset: not called)
    response_data,  \* local of __call__
    result,         \* what __call__ handed back to its caller
    faults,         \* exceptions raised inside the capture and dispatch steps
    logs,           \* log lines of the current request
    dispatch,       \* what _create_log_entry did for the current request
    ncalls,         \* number of calls of get_response / _create_log_entry
    task,           \* the task queued for the request's record
    pg,             \* RequestLog rows holding the record (PostgreSQL)
    mongo,          \* documents holding the record (MongoDB)
    timer,          \* start_time and execution_time of __call__
    message,        \* the request or response a capture step is given
    max_body_length,\* self.max_body_length
    snapshot,       \* what the capture step built from the message
    handed,         \* what _create_log_entry passes on of the snapshot
    wire,           \* the arguments on their way from _create_log_entry to
                    \* RequestLog.objects.create
    options,        \* the options of cleanup_audit_logs
    request_logs,   \* the table of RequestLog the command works on
    initial_logs,   \* that table when the command started
    cpc,            \* where the command is
    total_count,    \* cleanup_audit_logs.py:54
    deleted_count,  \* cleanup_audit_logs.py:77, :91
    ids,            \* cleanup_audit_logs.py:81, the ids of the last batch
    deleted_batch,  \* cleanup_audit_logs.py:90
    nqueries        \* the queries the command has sent to the database

pipeline_vars ==
    <<settings, env, pc, path, trace, request_data, downstream,
      response_data, result, faults, logs, dispatch, ncalls, task, pg, mongo,
      timer>>

capture_vars == <<message, max_body_length, snapshot, handed>>

wire_vars == <<wire>>

cleanup_vars ==
    <<options, request_logs, initial_logs, cpc, total_count, deleted_count, ids,
      deleted_batch, nqueries>>

vars == <<pipeline_vars, capture_vars, wire_vars, cleanup_vars>>

request_vars == <<path, trace, request_data, downstream, response_data,
                  result, faults, logs, dispatch, ncalls>>

\* middleware.py:73 and :82: whether start_time / execution_time have been
\* assigned, after which steps of the request (the trace at that moment),
\* and what execution_time is: time.time() - start_time, a float of seconds
NoTimer ==
    [started |-> FALSE, started_after |-> <<>>,
     elapsed |-> FALSE, elapsed_after |-> <<>>, type |-> "-", unit |-> "-"]

\* middleware.py:73, start_time = time.time()
start_timer(t, steps) == [t EXCEPT !.started = TRUE, !.started_after = steps]

\* middleware.py:82, execution_time = time.time() - start_time
stop_timer(t, steps) ==
    [t EXCEPT !.elapsed = TRUE, !.elapsed_after = steps,
              !.type = "float", !.unit = "s"]

NoDispatch ==
    [dispatched |-> FALSE, status |-> 0, enqueued |-> FALSE,
     create_call |-> FALSE, created |-> FALSE, raised |-> "none",
     error_logged |-> FALSE, outcome |-> NoneValue]

Settings ==
    [use_async_logging : BOOLEAN, raise_exceptions : BOOLEAN,
     use_mongo : BOOLEAN, write_to_both : BOOLEAN]

Envs ==
    {e \in [mongo_available : BOOLEAN, mongo_write_ok : BOOLEAN,
            pg_reachable : BOOLEAN] : e.mongo_write_ok => e.mongo_available}

\* no request has been received
IdlePipeline ==
    /\ pc = "idle"
    /\ path = <<>>
    /\ trace = <<>>
    /\ request_data = Unset
    /\ downstream = Unset
    /\ response_data = Unset
    /\ result = Unset
    /\ faults = {}
    /\ logs = {}
    /\ dispatch = NoDispatch
    /\ ncalls = [get_response |-> 0, create_log_entry |-> 0]
    /\ task = NoTask
    /\ pg = 0
    /\ mongo = 0
    /\ timer = NoTimer

\* no message is being captured
IdleCapture ==
    /\ message = NoMessage
    /\ max_body_length = default_max_body_length
    /\ snapshot = NoSnapshot
    /\ handed = NoHanded

\* the command is not running
IdleCleanup ==
    /\ options = NoOptions
    /\ request_logs = [i \in {} |-> 0]
    /\ initial_logs = [i \in {} |-> 0]
    /\ cpc = "idle"
    /\ total_count = 0
    /\ deleted_count = 0
    /\ ids = {}
    /\ deleted_batch = 0
    /\ nqueries = 0

Init ==
    /\ settings \in Settings
    /\ env \in Envs
    /\ IdlePipeline
    /\ IdleCapture
    /\ wire = NoWire
    /\ IdleCleanup

(***************************************************************************)
(* RequestLogMiddleware.__call__, one action per statement.                *)
(***************************************************************************)
\* a request reaches the middleware, middleware.py:53-64
Receive ==
    /\ UNCHANGED <<capture_vars, wire_vars, cleanup_vars>>
    /\ UNCHANGED timer
    /\ pc = "idle"
    /\ path' \in Paths
    /\ pc' = "skip_check"
    /\ UNCHANGED <<settings, env, trace, request_data, downstream,
                   response_data, result, faults, logs, dispatch, ncalls,
                   task, pg, mongo>>

\* middleware.py:64-73
SkipCheck ==
    /\ UNCHANGED <<capture_vars, wire_vars, cleanup_vars>>
    /\ pc = "skip_check"
    /\ pc' = IF is_excluded(path) THEN "passthrough" ELSE "capture_request"
    /\ timer' = IF is_excluded(path) THEN timer ELSE start_timer(timer, trace)
    /\ UNCHANGED <<settings, env, request_vars, task, pg, mongo>>

\* middleware.py:67 and :70, return self.get_response(request)
Passthrough ==
    /\ UNCHANGED <<capture_vars, wire_vars, cleanup_vars>>
    /\ UNCHANGED timer
    /\ pc = "passthrough"
    /\ \E out \in DownstreamOutcomes :
        /\ downstream' = out
        /\ result' = call_outcome(out, settings.raise_exceptions)
        /\ logs' = logs \cup (IF out.kind = "fault" THEN {"notify:__call__"} ELSE {})
    /\ trace' = Append(trace, "downstream")
    /\ ncalls' = [ncalls EXCEPT !.get_response = @ + 1]
    /\ pc' = "returned"
    /\ UNCHANGED <<settings, env, path, request_data, response_data,
                   faults, dispatch, task, pg, mongo>>

\* middleware.py:76, request_data = self._capture_request_data(request)
CaptureRequest ==
    /\ UNCHANGED <<capture_vars, wire_vars, cleanup_vars>>
    /\ UNCHANGED timer
    /\ pc = "capture_request"
    /\ \E f \in CaptureFaults :
        LET raw == capture_request_body(f)
            out == capture_request_data(f, settings.raise_exceptions)
        IN  /\ faults' = faults \cup
                    (IF f.type = "none" THEN {} ELSE {Fault(f.type, "capture_request")})
            /\ logs' = logs
                    \cup (IF f.type # "none" /\ raw.kind = "data"
                          THEN {"warning:capture_request"} ELSE {})
                    \cup (IF raw.kind = "fault"
                          THEN {"notify:_capture_request_data"} ELSE {})
                    \cup (IF out.kind = "fault" THEN {"notify:__call__"} ELSE {})
            /\ IF out.kind = "fault"
               THEN /\ result' = call_outcome(out, settings.raise_exceptions)
                    /\ pc' = "returned"
                    /\ UNCHANGED request_data
               ELSE /\ request_data' = out
                    /\ pc' = NextPc(pc)
                    /\ UNCHANGED result
    /\ trace' = Append(trace, "capture_request")
    /\ UNCHANGED <<settings, env, path, downstream, response_data,
                   dispatch, ncalls, task, pg, mongo>>

\* middleware.py:79-82, response = self.get_response(request)
Downstream ==
    /\ UNCHANGED <<capture_vars, wire_vars, cleanup_vars>>
    /\ pc = "downstream"
    /\ \E out \in DownstreamOutcomes :
        /\ downstream' = out
        /\ logs' = logs \cup (IF out.kind = "fault" THEN {"notify:__call__"} ELSE {})
        /\ IF out.kind = "fault"
           THEN /\ result' = call_outcome(out, settings.raise_exceptions)
                /\ pc' = "returned"
                /\ UNCHANGED timer
           ELSE /\ pc' = NextPc(pc)
                /\ timer' = stop_timer(timer, Append(trace, "downstream"))
                /\ UNCHANGED result
    /\ trace' = Append(trace, "downstream")
    /\ ncalls' = [ncalls EXCEPT !.get_response = @ + 1]
    /\ UNCHANGED <<settings, env, path, request_data, response_data,
                   faults, dispatch, task, pg, mongo>>

\* middleware.py:85, response_data = self._capture_response_data(response)
CaptureResponse ==
    /\ UNCHANGED <<capture_vars, wire_vars, cleanup_vars>>
    /\ UNCHANGED timer
    /\ pc = "capture_response"
    /\ \E f \in CaptureFaults :
        LET raw == capture_response_body(downstream, f)
            out == capture_response_data(downstream, f, settings.raise_exceptions)
        IN  /\ faults' = faults \cup
                    (IF f.type = "none" THEN {} ELSE {Fault(f.type, "capture_response")})
            /\ logs' = logs
                    \cup (IF f.type # "none" /\ raw.kind = "data"
                          THEN {"warning:capture_response"} ELSE {})
                    \cup (IF raw.kind = "fault"
                          THEN {"notify:_capture_response_data"} ELSE {})
                    \cup (IF out.kind = "fault" THEN {"notify:__call__"} ELSE {})
            /\ IF out.kind = "fault"
               THEN /\ result' = call_outcome(out, settings.raise_exceptions)
                    /\ pc' = "returned"
                    /\ UNCHANGED response_data
               ELSE /\ response_data' = out
                    /\ pc' = NextPc(pc)
                    /\ UNCHANGED result
    /\ trace' = Append(trace, "capture_response")
    /\ UNCHANGED <<settings, env, path, request_data, downstream,
                   dispatch, ncalls, task, pg, mongo>>

\* middleware.py:88, self._create_log_entry(request, request_data, response,
\* response_data, execution_time)
Dispatch ==
    /\ UNCHANGED <<capture_vars, wire_vars, cleanup_vars>>
    /\ UNCHANGED timer
    /\ pc = "dispatch"
    /\ \E delay_fault \in {"none"} \cup DelayFaultTypes :
        LET body == create_log_entry_body(request_data, response_data,
                        settings.use_async_logging, delay_fault, env.pg_reachable)
            out == create_log_entry(body, settings.raise_exceptions)
        IN  /\ dispatch' = body
            /\ faults' = faults \cup
                    (IF body.raised = "none" THEN {}
                     ELSE {Fault(body.raised, "create_log_entry")})
            /\ logs' = logs
                    \cup (IF body.error_logged THEN {"error:_create_log_entry"} ELSE {})
                    \cup (IF body.outcome.kind = "fault"
                          THEN {"notify:_create_log_entry"} ELSE {})
                    \cup (IF out.kind = "fault" THEN {"notify:__call__"} ELSE {})
            /\ task' = IF body.enqueued
                       THEN [NoTask EXCEPT !.state = "queued"]
                       ELSE task
            /\ pg' = IF body.created THEN pg + 1 ELSE pg
            /\ IF out.kind = "fault"
               THEN /\ result' = call_outcome(out, settings.raise_exceptions)
                    /\ pc' = "returned"
               ELSE /\ pc' = NextPc(pc)
                    /\ UNCHANGED result
    /\ trace' = Append(trace, "dispatch")
    /\ ncalls' = [ncalls EXCEPT !.create_log_entry = @ + 1]
    /\ UNCHANGED <<settings, env, path, request_data, downstream,
                   response_data, mongo>>

\* middleware.py:90, return response
Return ==
    /\ UNCHANGED <<capture_vars, wire_vars, cleanup_vars>>
    /\ UNCHANGED timer
    /\ pc = "return"
    /\ result' = call_outcome(downstream, settings.raise_exceptions)
    /\ pc' = "returned"
    /\ UNCHANGED <<settings, env, path, trace, request_data, downstream,
                   response_data, faults, logs, dispatch, ncalls, task, pg, mongo>>

(***************************************************************************)
(* The Celery worker runs one attempt of a queued task, tasks.py:24-103.   *)
(***************************************************************************)
WorkerAttempt ==
    /\ UNCHANGED <<capture_vars, wire_vars, cleanup_vars>>
    /\ UNCHANGED timer
    /\ task.state = "queued"
    /\ task.attempts < MaxAttempts
    /\ LET a == task_body(settings.use_mongo, settings.write_to_both,
                          env.mongo_available, env.mongo_write_ok,
                          env.pg_reachable)
       IN  /\ mongo' = mongo + (IF a.mongo_success THEN 1 ELSE 0)
           /\ pg' = pg + (IF a.pg_created THEN 1 ELSE 0)
           /\ task' = task_after(task, a)
    /\ UNCHANGED <<settings, env, pc, request_vars>>

Next ==
    \/ Receive
    \/ SkipCheck
    \/ Passthrough
    \/ CaptureRequest
    \/ Downstream
    \/ CaptureResponse
    \/ Dispatch
    \/ Return
    \/ WorkerAttempt

Spec == Init /\ [][Next]_vars

(***************************************************************************)
(* The capture steps on their own: one message, a request or a response,   *)
(* is captured and its snapshot handed on by _create_log_entry.            *)
(***************************************************************************)
CaptureInit ==
    /\ settings = [use_async_logging |-> TRUE, raise_exceptions |-> FALSE,
                   use_mongo |-> FALSE, write_to_both |-> FALSE]
    /\ env = [mongo_available |-> FALSE, mongo_write_ok |-> FALSE,
              pg_reachable |-> TRUE]
    /\ IdlePipeline
    /\ message \in Requests \cup Responses
    /\ max_body_length \in BodyLengths
    /\ snapshot = NoSnapshot
    /\ handed = NoHanded
    /\ wire = NoWire
    /\ IdleCleanup

\* middleware.py:76, request_data = self._capture_request_data(request)
CaptureRequestData ==
    /\ message.kind = "request"
    /\ snapshot = NoSnapshot
    /\ snapshot' = request_snapshot(message, max_body_length)
    /\ UNCHANGED <<pipeline_vars, wire_vars, cleanup_vars, message, max_body_length, handed>>

\* middleware.py:85, response_data = self._capture_response_data(response)
CaptureResponseData ==
    /\ message.kind = "response"
    /\ snapshot = NoSnapshot
    /\ snapshot' = response_snapshot(message, max_body_length)
    /\ UNCHANGED <<pipeline_vars, wire_vars, cleanup_vars, message, max_body_length, handed>>

\* middleware.py:229-241 / :245-257, the arguments built from the snapshot
HandToDispatch ==
    /\ snapshot # NoSnapshot
    /\ handed = NoHanded
    /\ handed' = dispatch_args(snapshot)
    /\ UNCHANGED <<pipeline_vars, wire_vars, cleanup_vars, message, max_body_length,
                   snapshot>>

CaptureNext ==
    \/ CaptureRequestData
    \/ CaptureResponseData
    \/ HandToDispatch

CaptureSpec == CaptureInit /\ [][CaptureNext]_vars

(***************************************************************************)
(* The hand-over on its own: the arguments built from a pair of snapshots  *)
(* go to RequestLog.objects.create directly (synchronous mode) or through  *)
(* the queue and the conversion of the worker (asynchronous mode).         *)
(***************************************************************************)
WireInit ==
    /\ \E async \in BOOLEAN :
          settings = [use_async_logging |-> async, raise_exceptions |-> FALSE,
                      use_mongo |-> FALSE, write_to_both |-> FALSE]
    /\ env = [mongo_available |-> FALSE, mongo_write_ok |-> FALSE,
              pg_reachable |-> TRUE]
    /\ IdlePipeline
    /\ IdleCapture
    /\ IdleCleanup
    /\ \E c \in Callers, rd \in RequestData, resp \in ResponseData :
          /\ c = "serialized" => settings.use_async_logging
          /\ wire = [NoWire EXCEPT !.stage = "snapshots", !.caller = c,
                                   !.request_data = rd, !.response_data = resp]

\* middleware.py:222-257, _create_log_entry builds the arguments and calls
\* .delay (asynchronous) or RequestLog.objects.create (synchronous)
WireDispatch ==
    /\ wire.stage = "snapshots"
    /\ wire.caller = "middleware"
    /\ wire' =
          IF settings.use_async_logging
          THEN [wire EXCEPT !.stage = "queued",
                            !.args = delay_kwargs(wire.request_data, wire.response_data,
                                                  ScalarValue("7"), ScalarValue("0.25"))]
          ELSE LET kw == sync_create_kwargs(wire.request_data, wire.response_data,
                                            ScalarValue("7"), ScalarValue("0.25"))
               IN  [wire EXCEPT !.stage = "created", !.args = kw, !.created_with = kw]
    /\ UNCHANGED <<pipeline_vars, capture_vars, cleanup_vars>>

\* tasks.py:25-38, the task called with its structured fields already
\* serialized
WireEnqueueSerialized ==
    /\ wire.stage = "snapshots"
    /\ wire.caller = "serialized"
    /\ wire' = [wire EXCEPT !.stage = "queued",
                            !.args = sync_create_kwargs(wire.request_data,
                                         wire.response_data,
                                         ScalarValue("7"), ScalarValue("0.25"))]
    /\ UNCHANGED <<pipeline_vars, capture_vars, cleanup_vars>>

\* tasks.py:59-96, the worker converts its arguments and calls
\* RequestLog.objects.create(**log_data)
WireWorker ==
    /\ wire.stage = "queued"
    /\ wire' = [wire EXCEPT !.stage = "created",
                            !.created_with = worker_log_data(wire.args)]
    /\ UNCHANGED <<pipeline_vars, capture_vars, cleanup_vars>>

WireNext ==
    \/ WireDispatch
    \/ WireEnqueueSerialized
    \/ WireWorker

WireSpec == WireInit /\ [][WireNext]_vars

(***************************************************************************)
(* One run of cleanup_audit_logs on a table nothing else writes to.        *)
(***************************************************************************)
CleanupInit ==
    /\ settings = [use_async_logging |-> FALSE, raise_exceptions |-> FALSE,
                   use_mongo |-> FALSE, write_to_both |-> FALSE]
    /\ env = [mongo_available |-> FALSE, mongo_write_ok |-> FALSE,
              pg_reachable |-> TRUE]
    /\ IdlePipeline
    /\ IdleCapture
    /\ wire = NoWire
    /\ options \in Options
    /\ request_logs \in Tables
    /\ initial_logs = request_logs
    /\ cpc = "start"
    /\ total_count = 0
    /\ deleted_count = 0
    /\ ids = {}
    /\ deleted_batch = 0
    /\ nqueries = 0

\* cleanup_audit_logs.py:37-77, handle up to the loop: CommandError for a
\* retention period that is not positive, else the count, and the return of
\* a dry run or of a run that finds nothing to delete
Handle ==
    /\ cpc = "start"
    /\ IF ~valid_days(retention_days(options))
       THEN /\ cpc' = "command_error"
            /\ UNCHANGED <<total_count, nqueries>>
       ELSE /\ total_count' = Cardinality(older_than(request_logs, cutoff(options)))
            /\ nqueries' = nqueries + 1
            /\ cpc' = IF options.dry_run THEN "dry_run"
                      ELSE IF total_count' = 0 THEN "no_logs"
                      ELSE "loop"
    /\ UNCHANGED <<options, request_logs, initial_logs, deleted_count, ids,
                   deleted_batch>>
    /\ UNCHANGED <<pipeline_vars, capture_vars, wire_vars>>

\* cleanup_audit_logs.py:78-99, one iteration of the loop, in one
\* transaction: select the ids of a batch, leave the loop when there are
\* none, else delete them.  A negative batch size makes the slice raise
\* (Django: negative indexing is not supported).
DeleteBatch ==
    /\ cpc = "loop"
    /\ IF options.batch_size < 0
       THEN /\ cpc' = "raised"
            /\ nqueries' = nqueries
            /\ UNCHANGED <<request_logs, deleted_count, ids, deleted_batch>>
       ELSE \E B \in first_ids(request_logs, cutoff(options), options.batch_size) :
               /\ ids' = B
               /\ IF B = {}
                  THEN /\ cpc' = "done"
                       /\ nqueries' = nqueries + 1
                       /\ UNCHANGED <<request_logs, deleted_count, deleted_batch>>
                  ELSE /\ request_logs' = delete_ids(request_logs, B)
                       /\ deleted_batch' = Cardinality(B)
                       /\ deleted_count' = deleted_count + Cardinality(B)
                       /\ nqueries' = nqueries + 2
                       /\ cpc' = "loop"
    /\ UNCHANGED <<options, initial_logs, total_count>>
    /\ UNCHANGED <<pipeline_vars, capture_vars, wire_vars>>

CleanupNext ==
    \/ Handle
    \/ DeleteBatch

\* the command is one sequential run: it keeps taking its next step
CleanupSpec == CleanupInit /\ [][CleanupNext]_vars /\ WF_vars(CleanupNext)

(***************************************************************************)
(* Properties.                                                             *)
(***************************************************************************)
\* the excluded paths, stated by concatenation instead of startswith/endswith
PathParts == {<<>>} \cup Paths
HasExcludedPrefix(p) ==
    \E prefix \in exclude_paths, rest \in PathParts : p = prefix \o rest
HasExcludedExtension(p) ==
    \E ext \in exclude_extensions, rest \in PathParts : p = rest \o ext
Skipped == HasExcludedPrefix(path) \/ HasExcludedExtension(path)

CaptureOrder == <<"capture_request", "downstream", "capture_response", "dispatch">>

MongoReachable == env.mongo_available /\ env.mongo_write_ok
DualBackend == settings.use_mongo \/ settings.write_to_both

\* C1 (fail-open): whenever __call__ has handed something back to its caller,
\* it is exactly what get_response(request) produced: the same response
\* object, or the same raised fault.
FailOpen ==
    pc = "returned" => result = downstream

\* C2: an exception raised inside _capture_request_data,
\* _capture_response_data or _create_log_entry never reaches the caller of
\* __call__: the downstream handler is still called and, when it returns a
\* response, that response is what __call__ returns.
CaptureDispatchFaultsDiscarded ==
    (pc = "returned" /\ faults # {}) =>
        /\ result \notin faults
        /\ downstream # Unset
        /\ (downstream.kind = "response" => result = downstream)

\* C3: when get_response raises on a non-skipped request, _create_log_entry
\* has been called exactly once, with a response snapshot of status 500,
\* before the original fault reaches the caller unchanged.
DownstreamFaultStillDispatched ==
    (pc = "returned" /\ ~Skipped /\ downstream.kind = "fault") =>
        /\ ncalls.create_log_entry = 1
        /\ dispatch.dispatched
        /\ dispatch.status = 500
        /\ result = downstream

\* C4 (skip rule): for a request whose path starts with an excluded prefix or
\* ends with an excluded extension no capture step and no dispatch runs,
\* nothing is queued and no store is written; get_response is called once
\* and the response it returns is the response of __call__.
SkipRule ==
    (pc # "idle" /\ Skipped) =>
        /\ \A i \in 1..Len(trace) : trace[i] = "downstream"
        /\ request_data = Unset /\ response_data = Unset
        /\ ncalls.create_log_entry = 0
        /\ ~dispatch.enqueued /\ ~dispatch.create_call
        /\ task = NoTask
        /\ pg = 0 /\ mongo = 0
        /\ (pc = "returned" =>
               /\ ncalls.get_response = 1
               /\ (downstream.kind = "response" => result = downstream))

\* C4 witness: a request skipped by its extension alone has been answered
\* with the downstream response.
SkipRuleWitness ==
    /\ pc = "returned"
    /\ HasExcludedExtension(path) /\ ~HasExcludedPrefix(path)
    /\ result.kind = "response"

\* C5: the steps of a non-skipped request are taken in the fixed order
\* request capture, downstream call, response capture, dispatch: what has
\* been done so far is always an initial part of that order.
StepOrder ==
    (pc # "idle" /\ ~Skipped) => \E n \in 0..Len(CaptureOrder) : trace = SubSeq(CaptureOrder, 1, n)

\* C5 witness: a non-skipped request went through all four steps.
StepOrderWitness ==
    pc = "returned" /\ ~Skipped /\ trace = CaptureOrder

\* C6 (exactly once): no backend ever holds two copies of a record, and once
\* a record that was handed to the dispatcher has been dealt with (the
\* synchronous create returned, or the task ended), with all stores
\* reachable, every backend meant to receive it holds exactly one copy.
ExactlyOncePerBackend ==
    /\ pg <= 1 /\ mongo <= 1
    /\ (/\ pc = "returned" /\ ~Skipped /\ downstream.kind = "response"
        /\ (dispatch.create_call \/ dispatch.enqueued)
        /\ (dispatch.enqueued => task.state \in {"succeeded", "failed"})
        /\ env.pg_reachable /\ MongoReachable)
       =>
       /\ (dispatch.create_call => pg = 1)
       /\ (dispatch.enqueued /\ DualBackend => mongo = 1)
       /\ (dispatch.enqueued /\ (~settings.use_mongo \/ settings.write_to_both)
              => pg = 1)

BoundedRetry ==
    /\ task.attempts <= 1 + max_retries
    /\ (task.attempts = 1 + max_retries => task.state \in {"succeeded", "failed"})

\* C8 witness: with PostgreSQL unreachable a task failed on every one of its
\* 1 + max_retries attempts and was dropped.
BoundedRetryWitness ==
    /\ ~env.pg_reachable
    /\ task.attempts = 1 + max_retries
    /\ task.store_errors = 1 + max_retries
    /\ task.state = "failed"

AtLeastOneBackend ==
    (/\ DualBackend
     /\ MongoReachable # env.pg_reachable
     /\ task.attempts >= 1)
    =>
    /\ task.state = "succeeded"
    /\ task.attempts = 1 /\ task.retries = 0
    /\ pg + mongo = 1

\* C11 (scenario D): in asynchronous mode with PostgreSQL as the only store
\* and unreachable on every attempt, once the task has been dropped it has
\* made its bounded attempts, no record is persisted, exactly one error-level
\* log line has been emitted for the record over all attempts, and a
\* response already returned to the client is the downstream response.
UnreachableStoreOneErrorLog ==
    (/\ settings.use_async_logging /\ ~DualBackend /\ ~env.pg_reachable
     /\ task.state = "failed")
    =>
    /\ task.attempts = 1 + max_retries
    /\ pg = 0 /\ mongo = 0
    /\ task.error_logs = 1
    /\ (pc = "returned" /\ faults = {} => result = downstream)

\* C17 (backend selection): in every worker attempt MongoDB is called iff
\* (use_mongo or write_to_both) and MongoDB is available, and PostgreSQL is
\* called iff not use_mongo, or write_to_both, or the MongoDB write did not
\* succeed; with use_mongo alone and a successful MongoDB write PostgreSQL
\* is not called, and with neither flag MongoDB is never called.
BackendSelection ==
    task.attempts >= 1 =>
        LET mongo_wrote == task.mongo_tried /\ env.mongo_write_ok
        IN  /\ task.mongo_tried <=>
                   ((settings.use_mongo \/ settings.write_to_both) /\ env.mongo_available)
            /\ task.pg_tried <=>
                   (~settings.use_mongo \/ settings.write_to_both \/ ~mongo_wrote)
            /\ (settings.use_mongo /\ ~settings.write_to_both /\ mongo_wrote
                    => ~task.pg_tried /\ pg = 0)
            /\ (~settings.use_mongo /\ ~settings.write_to_both
                    => ~task.mongo_tried /\ mongo = 0)
            /\ (mongo > 0 => task.mongo_tried)

\* C17 witness: write_to_both with MongoDB accepting the write: one attempt
\* called both stores.
BackendSelectionWitness ==
    /\ settings.write_to_both /\ ~settings.use_mongo
    /\ task.attempts >= 1
    /\ task.mongo_tried /\ task.pg_tried /\ mongo >= 1

(***************************************************************************)
(* Properties of the capture steps (CaptureSpec).                          *)
(***************************************************************************)
\* the marker as the specification writes it, "...[truncated]"
SpecMarker == <<".", ".", ".", "[", "t", "r", "u", "n", "c", "a", "t", "e", "d", "]">>

\* the number of characters of a captured body that come from the masked body
Kept(body) == IF Len(body) > max_body_length THEN max_body_length ELSE Len(body)

\* the texts a body can have: a JSON value, a JSON text cut short, a form
Render(shape, v) ==
    CASE shape = "json"        -> json_dumps(v)
      [] shape = "broken_json" -> SubSeq(json_dumps(v), 1, Len(json_dumps(v)) - 1)
      [] OTHER                 -> urlencode(v.doc)

\* the shape of the text a branch stores, given the shape of the body
StoredShape(branch, shape) == IF branch = "form" THEN "json" ELSE shape

\* C12 (header masking): in every snapshot handed to dispatch the header
\* names are lower-case, and a header whose name matches a sensitive field
\* case-insensitively carries the mask '********', never its raw value.
HeaderMasking ==
    handed.kind # "none" =>
        \A n \in DOMAIN handed.headers :
            /\ n = lower(n)
            /\ (IsSensitiveName(n) => handed.headers[n] = MaskToken)

\* C13 (truncation, P4): a masked body longer than max_body_length is
\* captured with length max_body_length + the length of the marker, its
\* first max_body_length characters are those of the masked body, and it
\* ends with the marker "...[truncated]"; a shorter one is captured unchanged.
TruncationContract ==
    snapshot.has_body =>
        IF Len(snapshot.masked) > max_body_length
        THEN /\ Len(snapshot.body) = max_body_length + Len(SpecMarker)
             /\ SubSeq(snapshot.body, 1, max_body_length)
                    = SubSeq(snapshot.masked, 1, max_body_length)
             /\ endswith(snapshot.body, SpecMarker)
        ELSE snapshot.body = snapshot.masked

\* C14 (mask before truncate): on every branch the captured body is the
\* truncation of a masking of the full body: some text M that is the full
\* body with the values of a set S of its keys replaced by the mask, S
\* holding at least every key that is a sensitive field, cut to
\* max_body_length only after that.
MaskBeforeTruncate ==
    snapshot.has_body =>
        \E shape \in {"json", "broken_json", "form"}, v \in JsonValues :
            /\ message.body = Render(shape, v)
            /\ \E S \in SUBSET DOMAIN v.doc :
                LET masked_doc == [k \in DOMAIN v.doc |->
                                     IF k \in S THEN MaskToken ELSE v.doc[k]]
                    stored == StoredShape(snapshot.branch, shape)
                    M == Render(stored,
                                [doc |-> masked_doc,
                                 nested |-> IF snapshot.branch = "form"
                                            THEN FALSE ELSE v.nested])
                IN  /\ sensitive_fields \cap DOMAIN v.doc \subseteq S
                    /\ snapshot.body =
                          IF Len(M) > max_body_length
                          THEN SubSeq(M, 1, max_body_length) \o truncation_marker
                          ELSE M

\* C14 witness: a JSON body was masked and the masked text truncated
\* inside the mask of a value.
MaskBeforeTruncateWitness ==
    /\ snapshot.branch = "json"
    /\ Len(snapshot.masked) > max_body_length
    /\ max_body_length >= 1
    /\ snapshot.body[max_body_length] = "*"

BodyWithinMaximum ==
    handed.kind # "none" => Len(handed.body) <= max_body_length

\* C18 as amended: every request body and response body handed to dispatch
\* has length <= max_body_length + the length of the marker
\* '... [truncated]' that truncation appends.
BodyWithinMaximumPlusMarker ==
    handed.kind # "none" =>
        Len(handed.body) <= max_body_length + Len(truncation_marker)

\* C18 witness: a truncated body of exactly that length was handed on.
BodyWithinMaximumWitness ==
    /\ handed.kind = "response"
    /\ Len(handed.body) = max_body_length + Len(truncation_marker)

\* C19 (form masking): for a POST/PUT/PATCH request with form content every
\* field whose name equals a sensitive field ignoring case is captured as
\* '********', and every other field is captured unchanged.
FormMaskingCaseInsensitive ==
    snapshot.branch = "form" =>
        \E d \in Docs :
            /\ urlencode(d) = message.body
            /\ DOMAIN snapshot.form = DOMAIN d
            /\ \A k \in DOMAIN d :
                  snapshot.form[k] = IF IsSensitiveName(k) THEN MaskToken ELSE d[k]

\* C20: for a request whose method is not POST, PUT or PATCH the capture
\* step does not read the body, the snapshot has no body, and the
\* request_body handed to dispatch is empty.
BodyOnlyForBodyMethods ==
    (snapshot.kind = "request" /\ message.method \notin {"POST", "PUT", "PATCH"}) =>
        /\ ~snapshot.body_read
        /\ ~snapshot.has_body
        /\ (handed.kind = "request" => handed.body = <<>>)

\* C20 witness: a DELETE request that carries a body was handed on with an
\* empty request_body.
BodyOnlyForBodyMethodsWitness ==
    /\ handed.kind = "request"
    /\ message.method = "DELETE"
    /\ Len(message.body) > 2
    /\ handed.body = <<>>

(***************************************************************************)
(* Further properties of the pipeline (Spec).                              *)
(***************************************************************************)
\* the calls _create_log_entry makes: .delay(...) and RequestLog.objects.create
DelayCalls == IF dispatch.dispatched /\ settings.use_async_logging THEN 1 ELSE 0
CreateCalls == IF dispatch.create_call THEN 1 ELSE 0

\* C23 (timing): the start instant is taken after the skip check and before
\* request capture; once the downstream call has returned or raised, the
\* elapsed time has been taken, before response capture; and the elapsed
\* time is an integer number of milliseconds.
Timing ==
    /\ (timer.started => timer.started_after = <<>>)
    /\ (~Skipped /\ downstream # Unset =>
           /\ timer.elapsed
           /\ timer.elapsed_after = <<"capture_request", "downstream">>)
    /\ (timer.elapsed => timer.type = "int" /\ timer.unit = "ms")

\* C24 (schema agreement): a RequestLog create called by the synchronous
\* path or by the worker against a reachable store is accepted and persists
\* one row; it is not rejected for an unknown field.
SchemaAgreement ==
    /\ (dispatch.create_call /\ env.pg_reachable =>
           dispatch.raised = "none" /\ pg = 1)
    /\ (task.pg_tried /\ env.pg_reachable =>
           task.store_errors = 0 /\ pg = 1)

\* C25: get_response is never called twice and never after dispatch has
\* started, and when __call__ has ended, for a skipped or a captured
\* request, it has been called exactly once.
DownstreamExactlyOnce ==
    /\ ncalls.get_response <= 1
    /\ \A i, j \in 1..Len(trace) :
          trace[i] = "dispatch" /\ trace[j] = "downstream" => j < i
    /\ (pc = "returned" => ncalls.get_response = 1)

\* C26 (mode exclusivity): for a non-skipped request whose downstream handler
\* returned, when __call__ has ended _create_log_entry has made exactly one
\* call, the one use_async_logging selects: one .delay (asynchronous) or one
\* RequestLog create (synchronous), never both and none twice.
ModeExclusivity ==
    /\ DelayCalls + CreateCalls <= 1
    /\ ncalls.create_log_entry <= 1
    /\ (pc = "returned" /\ ~Skipped /\ downstream.kind = "response" =>
           /\ DelayCalls = (IF settings.use_async_logging THEN 1 ELSE 0)
           /\ CreateCalls = (IF settings.use_async_logging THEN 0 ELSE 1))

\* the sentinel "streaming body, not captured"
StreamingSentinel ==
    <<
      "s", "t", "r", "e", "a", "m", "i", "n", "g", " ", "b", "o", "d",
      "y", ",", " ", "n", "o", "t", " ", "c", "a", "p", "t", "u", "r",
      "e", "d"
    >>

\* C21 (streaming responses): for a response without a content attribute the
\* response body handed to dispatch is the sentinel
\* "streaming body, not captured", and the capture step has not read the
\* stream.
StreamingSentinelCaptured ==
    (handed.kind = "response" /\ ~message.has_content) =>
        /\ handed.body = StreamingSentinel
        /\ ~snapshot.body_read

(***************************************************************************)
(* Properties of the hand-over (WireSpec).                                 *)
(***************************************************************************)
StructuredFields == {"query_params", "request_headers", "response_headers"}

\* C22 (asynchronous hand-off): the arguments the middleware gives to
\* create_request_log_entry.delay hold the structured fields (query
\* parameters, request headers, response headers) as strings, no mapping.
QueueArgsSerialized ==
    (wire.caller = "middleware" /\ settings.use_async_logging
        /\ wire.stage \in {"queued", "created"})
    => \A f \in StructuredFields : wire.args[f].type = "str"

\* C27 (sync/async equivalence): the field values RequestLog create is given
\* are those the synchronous path builds from the same snapshots, user id
\* and execution time, also when they came through the queue and the
\* conversion of the worker; arguments that were strings already leave the
\* conversion of the worker unchanged.
SyncAsyncEquivalence ==
    wire.stage = "created" =>
        /\ wire.created_with =
              sync_create_kwargs(wire.request_data, wire.response_data,
                                 ScalarValue("7"), ScalarValue("0.25"))
        /\ (wire.caller = "serialized" => wire.created_with = wire.args)

\* C27 witness: in asynchronous mode the middleware queued dicts of headers
\* that are not empty and the worker has called create.
SyncAsyncEquivalenceWitness ==
    /\ wire.stage = "created"
    /\ wire.caller = "middleware" /\ settings.use_async_logging
    /\ wire.args.request_headers.type = "dict"
    /\ DOMAIN wire.args.response_headers.dict # {}
    /\ wire.created_with.response_headers.type = "str"

(***************************************************************************)
(* Properties of cleanup_audit_logs (CleanupSpec).                         *)
(***************************************************************************)
Terminated == cpc \in {"command_error", "dry_run", "no_logs", "done", "raised"}

\* C28 (cleanup completeness and safety): a run that is no dry run, with
\* days > 0 and batch_size >= 1, terminates, and when it has ended no log
\* with a timestamp earlier than the cutoff remains while every log with a
\* timestamp at or after the cutoff is still there.
CleanupCompleteAndSafe ==
    (~options.dry_run /\ retention_days(options) > 0 /\ options.batch_size >= 1)
    => /\ <>Terminated
       /\ [](Terminated =>
               /\ \A i \in DOMAIN request_logs :
                     request_logs[i] >= Now - retention_days(options)
               /\ \A i \in DOMAIN initial_logs :
                     initial_logs[i] >= Now - retention_days(options)
                     => /\ i \in DOMAIN request_logs
                        /\ request_logs[i] = initial_logs[i])

\* C28 witness: a run with batch_size 1 has ended after it deleted two old
\* logs in two batches and kept a log made exactly at the cutoff.
CleanupCompleteAndSafeWitness ==
    /\ cpc = "done"
    /\ options.batch_size = 1
    /\ deleted_count = 2
    /\ \E i \in DOMAIN request_logs : request_logs[i] = Now - retention_days(options)

\* C29 (cleanup frame): with --dry-run no log is deleted, however many old
\* logs there are; with a retention period <= 0 the command raises
\* CommandError before it sends any query or deletes anything.
CleanupFrame ==
    /\ (options.dry_run => request_logs = initial_logs /\ deleted_count = 0)
    /\ (cpc # "start" /\ retention_days(options) <= 0
           => /\ cpc = "command_error"
              /\ nqueries = 0
              /\ request_logs = initial_logs)

\* C29 witness: a dry run has returned after it counted two old logs, which
\* are still in the table.
CleanupFrameWitness ==
    /\ cpc = "dry_run"
    /\ total_count >= 2
    /\ request_logs = initial_logs

\* C30 (cleanup batching): every batch deleted has at most batch_size logs,
\* all older than the cutoff (the selection and the deletion are one step,
\* the transaction); deleted_count never decreases; when the loop has ended
\* deleted_count equals the total_count computed before the loop.
CleanupBatching ==
    /\ [](ids # {} =>
             /\ Cardinality(ids) <= options.batch_size
             /\ deleted_batch = Cardinality(ids)
             /\ \A i \in ids : initial_logs[i] < Now - retention_days(options))
    /\ [][deleted_count' >= deleted_count]_vars
    /\ [](cpc = "done" => deleted_count = total_count)

====
